---- MODULE Spec2Model ----
(***************************************************************************)
(* windcal: the gust calendar of scripts/create_calendar.py.                *)
(*                                                                         *)
(* create_gust_calendar reads a forecast JSON document, scans its          *)
(* 'forecasts' list once, and appends one VEVENT to ical_content for every *)
(* block of consecutive entries whose gust exceeds the threshold.          *)
(*                                                                         *)
(* Time is counted in ticks of half an hour since an arbitrary epoch; a    *)
(* 'datetime' string of the recognised format carries its tick count, and  *)
(* strftime('%Y%m%dT%H%M%SZ') is kept as that tick count (the format is    *)
(* injective and order preserving).  List indices are 1-based here, the    *)
(* code's index i is the model's i - 1.  Latitude and longitude are counted *)
(* in 1/10000 of a degree.                                                 *)
(*                                                                         *)
(* Spec is one run of create_gust_calendar on a readable input document.   *)
(* SpecTwice is two such runs on the same input.  SpecIO is one run of the  *)
(* create_gust_calendar of either script, from opening the input document  *)
(* to the end of the write, on lists of at most MaxShort entries.          *)
(* SpecCardinal applies degrees_to_cardinal to one direction, SpecUid      *)
(* builds the UIDs of two blocks.                                          *)
(***************************************************************************)
EXTENDS Integers, Sequences, FiniteSets

\* ---------------------------------------------------------------- bounds
MaxLen == 3
MaxTime == 2
MaxShort == 2
\* directions are drawn from -MaxQuarters..MaxQuarters quarters of a degree
MaxQuarters == 2880

\* timedelta(hours=1) in ticks
OneHour == 2

Times == 0..MaxTime
GustNumbers == {0, 1, 2}
Thresholds == {-1, 0, 1}

\* ---------------------------------------------------------- input values
\* The value found under 'datetime': key absent, a string strptime rejects
\* (the GFS analyzer writes "Unknown (file: ...)"), or a well-formed string.
DatetimeValues ==
    {[kind |-> "absent", t |-> 0], [kind |-> "unparseable", t |-> 0]}
        \cup {[kind |-> "ok", t |-> x] : x \in Times}

\* The value found under 'wind_gust_kt': key absent, JSON null (written by
\* GFS/gfs_analyzer.py when no gust was read), or a number.
GustValues ==
    {[kind |-> "absent", v |-> 0], [kind |-> "null", v |-> 0]}
        \cup {[kind |-> "num", v |-> g] : g \in GustNumbers}

Forecast == [datetime : DatetimeValues, wind_gust_kt : GustValues]

ForecastLists == UNION {[1..n -> Forecast] : n \in 0..MaxLen}

ShortLists == UNION {[1..n -> Forecast] : n \in 0..MaxShort}

VARIABLES
    forecasts,           \* data.get('forecasts', [])
    gust_threshold_kt,   \* the threshold argument
    pc,                  \* position of create_gust_calendar
    i,                   \* loop index of the scan (1-based)
    interval,            \* the sampling interval
    current_block,       \* indices of the entries of the open block
    ical_content,        \* the VEVENTs appended so far, in order
    events_added_count,  \* the counter printed after the scan
    raised,              \* the exception that left the function, or "none"
    outfile,             \* lines under the output filename, or a "nofile" line
    now_utc,             \* the clock reading of line 115, in seconds
    location,            \* data['location']: latitude and longitude
    degrees,             \* argument of degrees_to_cardinal
    cardinal,            \* its result, "unset" before the call
    uid_blocks,          \* two blocks: start, latitude, longitude of each
    uids,                \* their UIDs, <<>> before they are built
    script,              \* "scripts" or "GFS": whose create_calendar.py runs
    json_file,           \* what is found at the input path
    result,              \* what create_gust_calendar returned, or "pending"
    previous,            \* content under the output filename before the run
    run,                 \* 1 in the first run, 2 in the second
    first_output,        \* the file the first run wrote
    tz_name,             \* what tf.timezone_at returns for the location
    local_tz,            \* the timezone of the description lines
    tz_lookups,          \* calls of tf.timezone_at in this run
    wind_direction,      \* result of get_wind_direction_16_points, or "unset"
    description_lines,   \* the lines of a description before escaping
    description,         \* the escaped lines joined, <<"unset">> before
    dl_pc,               \* position of download_gfs_wind_data
    max_retries,         \* its argument
    fxx_int,             \* forecast hour (scripts) or step (GFS) of the loop
    consecutive_failures,
    downloaded_files,    \* number of files appended to the list
    attempt              \* requests issued for the present step

scanVars == <<forecasts, gust_threshold_kt, pc, i, interval, current_block,
              ical_content, events_added_count, raised, outfile>>

\* what a run reads and never assigns
envVars == <<now_utc, location>>

\* the variables of the specifications of single functions
pureVars == <<degrees, cardinal, uid_blocks, uids>>

ioVars == <<script, json_file, result, previous>>

twiceVars == <<run, first_output>>

tzVars == <<tz_name, local_tz, tz_lookups>>

\* further single functions: the Cosmo direction label, the escaping
fnVars == <<wind_direction, description_lines, description>>

dlVars == <<dl_pc, max_retries, fxx_int, consecutive_failures,
            downloaded_files, attempt>>

otherVars == <<envVars, pureVars, ioVars, twiceVars, tzVars, fnVars, dlVars>>

vars == <<scanVars, otherVars>>

num_forecasts == Len(forecasts)

\* ------------------------------------------------------------ pure parts
\* datetime.datetime.strptime(s, '%Y-%m-%d %H:%M:%S') on a value read with
\* forecast['datetime']: KeyError when the key is absent, ValueError when
\* the string does not match, otherwise the instant.
Strptime(d) ==
    IF d.kind = "absent" THEN [exc |-> "KeyError", val |-> 0]
    ELSE IF d.kind = "unparseable" THEN [exc |-> "ValueError", val |-> 0]
    ELSE [exc |-> "none", val |-> d.t]

\* variant: the default for an absent key is 1 instead of 0
MutGetGust(f) ==
    IF f.wind_gust_kt.kind = "absent" THEN [kind |-> "num", v |-> 1]
    ELSE f.wind_gust_kt

\* forecast.get('wind_gust_kt', 0): the default replaces an absent key only,
\* a null value comes back as None.
GetGust(f) ==
    IF f.wind_gust_kt.kind = "absent" THEN [kind |-> "num", v |-> 0]
    ELSE f.wind_gust_kt

\* variant: the comparison is >= instead of >
MutIsOverThresholdGeq(g, T) == g >= T

\* variant: the comparison is off by one above the threshold
MutIsOverThresholdHigh(g, T) == g > T + 1

\* gust > gust_threshold_kt on a number
IsOverThreshold(g, T) == g > T

\* variant: the check for a non-positive interval is missing
MutComputeInterval(fs) ==
    IF Len(fs) >= 2
    THEN LET dt1 == Strptime(fs[1].datetime)
             dt2 == Strptime(fs[2].datetime)
         IN  IF dt1.exc # "none" \/ dt2.exc # "none" THEN OneHour
             ELSE dt2.val - dt1.val
    ELSE OneHour

\* lines 129-141: the interval between the first two forecasts
ComputeInterval(fs) ==
    IF Len(fs) >= 2
    THEN LET dt1 == Strptime(fs[1].datetime)
             dt2 == Strptime(fs[2].datetime)
         IN  IF dt1.exc # "none" \/ dt2.exc # "none" THEN OneHour
             ELSE IF dt2.val - dt1.val <= 0 THEN OneHour
             ELSE dt2.val - dt1.val
    ELSE OneHour

TimeOf(k) == Strptime(forecasts[k].datetime).val

\* strftime('%H:%M'): the time of day
TicksPerDay == 24 * OneHour
HourMinute(t) == t % TicksPerDay

\* pytz.utc, and pytz.timezone(name) for the names the lookup can give; a
\* zone is its offset from UTC over the days of the forecast
Utc == [name |-> "UTC", utcoffset |-> 0]
Timezone(name) ==
    IF name = "Europe/Zurich" THEN [name |-> name, utcoffset |-> OneHour]
    ELSE [name |-> name, utcoffset |-> -5 * OneHour]

\* pytz.utc.localize(naive).astimezone(tz): the wall clock of tz at UTC time t
Astimezone(t, tz) == t + tz.utcoffset

\* variant: the description times stay in UTC
MutDescriptionLines(block) ==
    [k \in 1..Len(block) |->
        [entry |-> block[k],
         time  |-> TimeOf(block[k]),
         local |-> HourMinute(TimeOf(block[k])),
         gust  |-> forecasts[block[k]].wind_gust_kt]]

\* the description lines of a block: one per block entry, in block order,
\* each with the local time of day of its entry
DescriptionLines(block) ==
    [k \in 1..Len(block) |->
        [entry |-> block[k],
         time  |-> TimeOf(block[k]),
         local |-> HourMinute(Astimezone(TimeOf(block[k]), local_tz)),
         gust  |-> forecasts[block[k]].wind_gust_kt]]

\* variant: the interval is not added
MutEndAfterLast(block) == TimeOf(block[Len(block)])

\* end of a block that no below-threshold entry closed
EndAfterLast(block) == TimeOf(block[Len(block)]) + interval

\* variant: a closed block ends like a flushed one, at last member + interval
MutEndAtEntry(k) == TimeOf(k - 1) + interval

\* end of a block closed by the entry at index k
EndAtEntry(k) == TimeOf(k)

\* variant: the lines are joined with a real line break
MutJoinLines(lines) ==
    [k \in 1..(2 * Len(lines) - 1) |->
        IF k % 2 = 1 THEN lines[(k + 1) \div 2] ELSE [sep |-> "\n"]]

\* "\\n".join(description_lines): the lines with the two characters
\* backslash, n between them
Separator == [sep |-> "\\n"]

JoinLines(lines) ==
    [k \in 1..(2 * Len(lines) - 1) |->
        IF k % 2 = 1 THEN lines[(k + 1) \div 2] ELSE Separator]

\* f"{x:.3f}" on a coordinate: sign and thousandths, rounded to nearest
\* (a result of zero keeps the sign of a negative x)
Format3(x) ==
    [neg   |-> x < 0,
     milli |-> ((IF x < 0 THEN -x ELSE x) + 5) \div 10]

\* variant: the longitude is left out of the UID
MutUid(start, latitude, longitude) ==
    [start |-> start,
     lat   |-> Format3(latitude),
     lon   |-> Format3(0),
     host  |-> "@gustcalendar.local"]

\* variant: the UID is built from the clock reading
MutUidClock(start, latitude, longitude) ==
    [start |-> now_utc,
     lat   |-> Format3(latitude),
     lon   |-> Format3(longitude),
     host  |-> "@gustcalendar.local"]

\* the UID of a block: start to the second, latitude and longitude to three
\* decimals, fixed suffix
Uid(start, latitude, longitude) ==
    [start |-> start,
     lat   |-> Format3(latitude),
     lon   |-> Format3(longitude),
     host  |-> "@gustcalendar.local"]

\* the SUMMARY text the emission site writes: the site for a missing
\* datetime (line 190) writes the threshold only, the other three (lines
\* 237, 290, 336) add the UTC range.  The thresholds of the model are whole
\* numbers, on which int() changes nothing.
Summary(site, start, end) ==
    IF site = "missing"
    THEN [threshold |-> gust_threshold_kt, utc |-> <<>>]
    ELSE [threshold |-> gust_threshold_kt,
          utc |-> <<HourMinute(start), HourMinute(end)>>]

\* the VEVENT appended for a block, 'site' naming which of the four places
\* of the code appends it
VEvent(block, end, site) ==
    [uid         |-> Uid(TimeOf(block[1]), location.latitude, location.longitude),
     dtstamp     |-> now_utc,
     dtstart     |-> TimeOf(block[1]),
     dtend       |-> end,
     summary     |-> Summary(site, TimeOf(block[1]), end),
     location    |-> <<Format3(location.latitude), Format3(location.longitude)>>,
     description |-> DescriptionLines(block),
     description_text |-> JoinLines(DescriptionLines(block)),
     site        |-> site]

\* lines 109-112
Header ==
    <<[tag |-> "BEGIN:VCALENDAR"], [tag |-> "VERSION:2.0"],
      [tag |-> "PRODID:-//project7III//WindCal//EN"],
      [tag |-> "CALSCALE:GREGORIAN"]>>

\* variant: END:VEVENT is not appended
MutEventLines(e) ==
    <<[tag |-> "BEGIN:VEVENT"],
      [tag |-> "UID", val |-> e.uid],
      [tag |-> "DTSTAMP", val |-> e.dtstamp],
      [tag |-> "DTSTART", val |-> e.dtstart],
      [tag |-> "DTEND", val |-> e.dtend],
      [tag |-> "SUMMARY", val |-> e.summary],
      [tag |-> "LOCATION", val |-> e.location],
      [tag |-> "DESCRIPTION", val |-> e.description_text]>>

\* the nine lines BEGIN:VEVENT .. END:VEVENT appended for an event
EventLines(e) ==
    <<[tag |-> "BEGIN:VEVENT"],
      [tag |-> "UID", val |-> e.uid],
      [tag |-> "DTSTAMP", val |-> e.dtstamp],
      [tag |-> "DTSTART", val |-> e.dtstart],
      [tag |-> "DTEND", val |-> e.dtend],
      [tag |-> "SUMMARY", val |-> e.summary],
      [tag |-> "LOCATION", val |-> e.location],
      [tag |-> "DESCRIPTION", val |-> e.description_text],
      [tag |-> "END:VEVENT"]>>

RECURSIVE AllEventLines(_)
AllEventLines(events) ==
    IF events = <<>> THEN <<>>
    ELSE EventLines(Head(events)) \o AllEventLines(Tail(events))

\* the list ical_content of the code after line 349
Document(events) ==
    Header \o AllEventLines(events) \o <<[tag |-> "END:VCALENDAR"]>>

\* ------------------------------------------------------------------ Init
InitScan ==
    /\ forecasts \in ForecastLists
    /\ gust_threshold_kt \in Thresholds
    /\ pc = "start"
    /\ i = 1
    /\ interval = OneHour
    /\ current_block = <<>>
    /\ ical_content = <<>>
    /\ events_added_count = 0
    /\ raised = "none"
    /\ outfile = <<[tag |-> "nofile"]>>

\* the clock and the location of a run of Spec: no step of the scan depends
\* on them
ScanClocks == {0}
ScanLocations == {[latitude |-> 471284, longitude |-> -72286]}

FnIdle ==
    /\ wind_direction = "unset"
    /\ description_lines = <<>>
    /\ description = <<"unset">>

\* no downloader runs
DlIdle ==
    /\ dl_pc = "idle"
    /\ max_retries = 0
    /\ fxx_int = 0
    /\ consecutive_failures = 0
    /\ downloaded_files = 0
    /\ attempt = 0

\* no function of the single-function specifications has been called
PureIdle ==
    /\ degrees = [kind |-> "none", q |-> 0]
    /\ cardinal = "unset"
    /\ uid_blocks = <<>>
    /\ uids = <<>>
    /\ FnIdle

\* a single run of scripts/create_calendar.py whose input was read, with no
\* file under the output name
TzResolved ==
    /\ tz_name = "Europe/Zurich"
    /\ local_tz = Timezone(tz_name)
    /\ tz_lookups = 1

IoIdle ==
    /\ TzResolved
    /\ script = "scripts"
    /\ json_file = "ok"
    /\ result = "pending"
    /\ previous = <<[tag |-> "nofile"]>>
    /\ run = 1
    /\ first_output = <<[tag |-> "nofile"]>>

Init ==
    /\ InitScan
    /\ now_utc \in ScanClocks
    /\ location \in ScanLocations
    /\ PureIdle
    /\ IoIdle
    /\ DlIdle

\* --------------------------------------------------------------- actions
\* lines 122-144: empty list goes straight to the write, otherwise the
\* interval is computed and the scan starts
Start ==
    /\ pc = "start"
    /\ IF num_forecasts = 0
       THEN /\ pc' = "write"
            /\ UNCHANGED interval
       ELSE /\ pc' = "scan"
            /\ interval' = ComputeInterval(forecasts)
    /\ UNCHANGED <<forecasts, gust_threshold_kt, i, current_block,
                   ical_content, events_added_count, raised, outfile>>
    /\ UNCHANGED otherVars

\* variant: the flushed block is not cleared
MutFlushOpenBlock(site) ==
    IF current_block # <<>>
    THEN /\ events_added_count' = events_added_count + 1
         /\ ical_content' =
                Append(ical_content,
                       VEvent(current_block, EndAfterLast(current_block), site))
         /\ UNCHANGED current_block
    ELSE UNCHANGED <<events_added_count, ical_content, current_block>>

\* a block that ended without a closing entry is flushed (lines 160-195,
\* 206-242)
FlushOpenBlock(site) ==
    IF current_block # <<>>
    THEN /\ events_added_count' = events_added_count + 1
         /\ ical_content' =
                Append(ical_content,
                       VEvent(current_block, EndAfterLast(current_block), site))
         /\ current_block' = <<>>
    ELSE UNCHANGED <<events_added_count, ical_content, current_block>>

\* lines 157-196: forecast.get('datetime') is None
SkipMissingDatetime ==
    /\ pc = "scan"
    /\ i <= num_forecasts
    /\ forecasts[i].datetime.kind = "absent"
    /\ FlushOpenBlock("missing")
    /\ i' = i + 1
    /\ UNCHANGED <<forecasts, gust_threshold_kt, pc, interval, raised, outfile>>
    /\ UNCHANGED otherVars

\* lines 199-243: strptime raises ValueError
SkipUnparseableDatetime ==
    /\ pc = "scan"
    /\ i <= num_forecasts
    /\ forecasts[i].datetime.kind # "absent"
    /\ Strptime(forecasts[i].datetime).exc = "ValueError"
    /\ FlushOpenBlock("unparseable")
    /\ i' = i + 1
    /\ UNCHANGED <<forecasts, gust_threshold_kt, pc, interval, raised, outfile>>
    /\ UNCHANGED otherVars

\* line 246 with gust = None: None > number raises TypeError, which nothing
\* in create_gust_calendar catches
CompareRaises ==
    /\ pc = "scan"
    /\ i <= num_forecasts
    /\ Strptime(forecasts[i].datetime).exc = "none"
    /\ GetGust(forecasts[i]).kind = "null"
    /\ pc' = "crashed"
    /\ raised' = "TypeError"
    /\ UNCHANGED <<forecasts, gust_threshold_kt, i, interval, current_block,
                   ical_content, events_added_count, outfile>>
    /\ UNCHANGED otherVars

\* lines 248-250
AppendToBlock ==
    /\ pc = "scan"
    /\ i <= num_forecasts
    /\ Strptime(forecasts[i].datetime).exc = "none"
    /\ GetGust(forecasts[i]).kind = "num"
    /\ IsOverThreshold(GetGust(forecasts[i]).v, gust_threshold_kt)
    /\ current_block' = Append(current_block, i)
    /\ i' = i + 1
    /\ UNCHANGED <<forecasts, gust_threshold_kt, pc, interval, ical_content,
                   events_added_count, raised, outfile>>
    /\ UNCHANGED otherVars

\* lines 251-298
BelowThreshold ==
    /\ pc = "scan"
    /\ i <= num_forecasts
    /\ Strptime(forecasts[i].datetime).exc = "none"
    /\ GetGust(forecasts[i]).kind = "num"
    /\ ~IsOverThreshold(GetGust(forecasts[i]).v, gust_threshold_kt)
    /\ IF current_block # <<>>
       THEN /\ events_added_count' = events_added_count + 1
            /\ ical_content' =
                   Append(ical_content,
                          VEvent(current_block, EndAtEntry(i), "below"))
            /\ current_block' = <<>>
       ELSE UNCHANGED <<events_added_count, ical_content, current_block>>
    /\ i' = i + 1
    /\ UNCHANGED <<forecasts, gust_threshold_kt, pc, interval, raised, outfile>>
    /\ UNCHANGED otherVars

\* lines 300-349: the loop is over, a pending block is flushed
EndOfInput ==
    /\ pc = "scan"
    /\ i > num_forecasts
    /\ FlushOpenBlock("end")
    /\ pc' = "write"
    /\ UNCHANGED <<forecasts, gust_threshold_kt, i, interval, raised, outfile>>
    /\ UNCHANGED otherVars

\* lines 352-355, 360
WriteFile ==
    /\ pc = "write"
    /\ outfile' = Document(ical_content)
    /\ pc' = "done"
    /\ UNCHANGED <<forecasts, gust_threshold_kt, i, interval, current_block,
                   ical_content, events_added_count, raised>>
    /\ UNCHANGED otherVars

\* lines 356-358: open() raises IOError, the function returns None
WriteFails ==
    /\ pc = "write"
    /\ pc' = "failed"
    /\ UNCHANGED <<forecasts, gust_threshold_kt, i, interval, current_block,
                   ical_content, events_added_count, raised, outfile>>
    /\ UNCHANGED otherVars

Next ==
    \/ Start
    \/ SkipMissingDatetime
    \/ SkipUnparseableDatetime
    \/ CompareRaises
    \/ AppendToBlock
    \/ BelowThreshold
    \/ EndOfInput
    \/ WriteFile
    \/ WriteFails

Spec == Init /\ [][Next]_vars

\* ------------------------------------------------------------ two runs
Clocks == {0, 1}

InitTwice ==
    /\ forecasts \in ShortLists
    /\ gust_threshold_kt \in Thresholds
    /\ pc = "start"
    /\ i = 1
    /\ interval = OneHour
    /\ current_block = <<>>
    /\ ical_content = <<>>
    /\ events_added_count = 0
    /\ raised = "none"
    /\ outfile = <<[tag |-> "nofile"]>>
    /\ now_utc \in Clocks
    /\ location \in ScanLocations
    /\ PureIdle
    /\ IoIdle
    /\ DlIdle

\* lines 362-375 once more on the same arguments, at a later reading of the
\* clock
RunAgain ==
    /\ pc = "done"
    /\ run = 1
    /\ run' = 2
    /\ first_output' = outfile
    /\ now_utc' \in Clocks
    /\ pc' = "start"
    /\ i' = 1
    /\ interval' = OneHour
    /\ current_block' = <<>>
    /\ ical_content' = <<>>
    /\ events_added_count' = 0
    /\ UNCHANGED <<forecasts, gust_threshold_kt, raised, outfile, location,
                   pureVars, ioVars, tzVars, fnVars, dlVars>>

NextTwice ==
    \/ Start
    \/ SkipMissingDatetime
    \/ SkipUnparseableDatetime
    \/ CompareRaises
    \/ AppendToBlock
    \/ BelowThreshold
    \/ EndOfInput
    \/ WriteFile
    \/ WriteFails
    \/ RunAgain

SpecTwice == InitTwice /\ [][NextTwice]_vars

\* ------------------------------------------- the run from input to file
Scripts == {"scripts", "GFS"}

\* what open() and json.load find at the input path, and what the document
\* holds under 'location'
JsonFiles ==
    {"notfound", "notjson", "nolocation", "nolatitude", "nolongitude", "ok"}

\* a file left under the output name by an earlier run
OldFile == <<[tag |-> "BEGIN:VCALENDAR"], [tag |-> "OLD"], [tag |-> "END:VCALENDAR"]>>

\* timedelta(hours=3), GFS/create_calendar.py line 99
ThreeHours == 3 * OneHour

\* GFS/create_calendar.py line 107: start, int(gust), latitude, longitude
GfsUid(start, gust, latitude, longitude) ==
    [start |-> start,
     gust  |-> gust,
     lat   |-> Format3(latitude),
     lon   |-> Format3(longitude),
     host  |-> "@gustcalendar.local"]

\* variant: the last entry's event lasts one hour
MutGfsEvent(k) ==
    LET start == Strptime(forecasts[k].datetime).val
        nxt   == Strptime(forecasts[k + 1].datetime)
        end   == IF k + 1 <= num_forecasts
                 THEN (IF nxt.exc = "none" THEN nxt.val ELSE start + OneHour)
                 ELSE start + OneHour
        gust  == GetGust(forecasts[k]).v
    IN  [uid     |-> GfsUid(start, gust, location.latitude, location.longitude),
         dtstamp |-> now_utc,
         dtstart |-> start,
         dtend   |-> end,
         summary |-> [threshold |-> gust_threshold_kt, gust |-> gust],
         site    |-> "gfs"]

\* GFS/create_calendar.py lines 74-114: the event of entry k
GfsEvent(k) ==
    LET start == Strptime(forecasts[k].datetime).val
        nxt   == Strptime(forecasts[k + 1].datetime)
        end   == IF k + 1 <= num_forecasts
                 THEN (IF nxt.exc = "none" THEN nxt.val ELSE start + OneHour)
                 ELSE start + ThreeHours
        gust  == GetGust(forecasts[k]).v
    IN  [uid     |-> GfsUid(start, gust, location.latitude, location.longitude),
         dtstamp |-> now_utc,
         dtstart |-> start,
         dtend   |-> end,
         summary |-> [threshold |-> gust_threshold_kt, gust |-> gust],
         site    |-> "gfs"]

\* GFS/create_calendar.py lines 109-115
GfsEventLines(e) ==
    <<[tag |-> "BEGIN:VEVENT"],
      [tag |-> "UID", val |-> e.uid],
      [tag |-> "DTSTAMP", val |-> e.dtstamp],
      [tag |-> "DTSTART", val |-> e.dtstart],
      [tag |-> "DTEND", val |-> e.dtend],
      [tag |-> "SUMMARY", val |-> e.summary],
      [tag |-> "END:VEVENT"]>>

RECURSIVE AllGfsEventLines(_)
AllGfsEventLines(events) ==
    IF events = <<>> THEN <<>>
    ELSE GfsEventLines(Head(events)) \o AllGfsEventLines(Tail(events))

\* GFS/create_calendar.py: ical_content after line 133
GfsDocument(events) ==
    Header \o AllGfsEventLines(events) \o <<[tag |-> "END:VCALENDAR"]>>

\* the list handed to the write step by the running script
FinalDocument ==
    IF script = "GFS" THEN GfsDocument(ical_content) ELSE Document(ical_content)

InitIO ==
    /\ script \in Scripts
    /\ json_file \in JsonFiles
    \* a document without a 'forecasts' list is scanned as the empty list
    /\ forecasts \in (IF json_file = "ok" THEN ShortLists ELSE {<<>>})
    /\ gust_threshold_kt \in Thresholds
    /\ pc = "read"
    /\ i = 1
    /\ interval = OneHour
    /\ current_block = <<>>
    /\ ical_content = <<>>
    /\ events_added_count = 0
    /\ raised = "none"
    /\ outfile \in {<<[tag |-> "nofile"]>>, OldFile}
    /\ previous = outfile
    /\ result = "pending"
    /\ now_utc \in ScanClocks
    /\ location \in ScanLocations
    /\ run = 1
    /\ first_output = <<[tag |-> "nofile"]>>
    /\ TzResolved
    /\ PureIdle
    /\ DlIdle

ioFrame == <<forecasts, gust_threshold_kt, i, interval, current_block,
             ical_content, events_added_count, raised, script, json_file,
             previous, envVars, pureVars, twiceVars, tzVars, fnVars, dlVars>>

\* lines 68-79 (GFS: 26-37): the input cannot be opened or is not JSON,
\* the error is printed and None returned
ReadJson ==
    /\ pc = "read"
    /\ IF json_file \in {"notfound", "notjson"}
       THEN pc' = "returned" /\ result' = "None"
       ELSE pc' = "locate" /\ UNCHANGED result
    /\ UNCHANGED <<ioFrame, outfile>>

\* variant: a missing location is reported but the run goes on
MutReadLocation ==
    /\ pc = "locate"
    /\ pc' = (IF script = "GFS" THEN "gfs_scan" ELSE "start")
    /\ UNCHANGED <<ioFrame, outfile, result>>

\* lines 81-87 (GFS: 39-45): KeyError on 'location', 'latitude' or
\* 'longitude' is printed and None returned
ReadLocation ==
    /\ pc = "locate"
    /\ IF json_file \in {"nolocation", "nolatitude", "nolongitude"}
       THEN pc' = "returned" /\ result' = "None"
       ELSE /\ pc' = (IF script = "GFS" THEN "gfs_scan" ELSE "start")
            /\ UNCHANGED result
    /\ UNCHANGED <<ioFrame, outfile>>

\* GFS/create_calendar.py lines 64-122, one entry: the counter is raised as
\* soon as the gust is over the threshold, the event is appended when the
\* entry's datetime parses; every exception skips the entry
GfsScanEntry ==
    /\ pc = "gfs_scan"
    /\ i <= num_forecasts
    /\ LET g == GetGust(forecasts[i])
       IN  IF g.kind = "null"
           THEN UNCHANGED <<events_added_count, ical_content>>
           ELSE IF ~IsOverThreshold(g.v, gust_threshold_kt)
           THEN UNCHANGED <<events_added_count, ical_content>>
           ELSE /\ events_added_count' = events_added_count + 1
                /\ IF Strptime(forecasts[i].datetime).exc # "none"
                   THEN UNCHANGED ical_content
                   ELSE ical_content' = Append(ical_content, GfsEvent(i))
    /\ i' = i + 1
    /\ UNCHANGED <<forecasts, gust_threshold_kt, pc, interval, current_block,
                   raised, outfile, otherVars>>

\* variant: the file is opened and the header written before the write step
MutGfsEndOfInput ==
    /\ pc = "gfs_scan"
    /\ i > num_forecasts
    /\ pc' = "write"
    /\ outfile' = Header
    /\ UNCHANGED <<forecasts, gust_threshold_kt, i, interval, current_block,
                   ical_content, events_added_count, raised, otherVars>>

\* GFS/create_calendar.py lines 124-133
GfsEndOfInput ==
    /\ pc = "gfs_scan"
    /\ i > num_forecasts
    /\ pc' = "write"
    /\ UNCHANGED <<forecasts, gust_threshold_kt, i, interval, current_block,
                   ical_content, events_added_count, raised, outfile, otherVars>>

\* line 353 (GFS: 139): open(filename, 'w') creates the file or cuts it to
\* length zero
OpenFile ==
    /\ pc = "write"
    /\ outfile' = <<>>
    /\ pc' = "opened"
    /\ UNCHANGED <<ioFrame, result>>

\* lines 353, 356-358 (GFS: 139, 143-145): open() raises IOError
OpenRaisesIOError ==
    /\ pc = "write"
    /\ pc' = "failed"
    /\ result' = "None"
    /\ UNCHANGED <<ioFrame, outfile>>

\* lines 354-355, 360 (GFS: 140-142): the whole text is written and the
\* file closed, the filename is returned
WriteAll ==
    /\ pc = "opened"
    /\ outfile' = FinalDocument
    /\ pc' = "done"
    /\ result' = "filename"
    /\ UNCHANGED ioFrame

\* variant: the filename is returned after a failed write
MutWriteRaisesIOError ==
    /\ pc = "opened"
    /\ \E cut \in 0..(Len(FinalDocument) - 1) :
         outfile' = SubSeq(FinalDocument, 1, cut)
    /\ pc' = "failed"
    /\ result' = "filename"
    /\ UNCHANGED ioFrame

\* lines 354, 356-358 (GFS: 140, 143-145): write() or the close raises
\* IOError after any part of the text went to the file
WriteRaisesIOError ==
    /\ pc = "opened"
    /\ \E cut \in 0..(Len(FinalDocument) - 1) :
         outfile' = SubSeq(FinalDocument, 1, cut)
    /\ pc' = "failed"
    /\ result' = "None"
    /\ UNCHANGED ioFrame

NextIO ==
    \/ ReadJson
    \/ ReadLocation
    \/ Start
    \/ SkipMissingDatetime
    \/ SkipUnparseableDatetime
    \/ CompareRaises
    \/ AppendToBlock
    \/ BelowThreshold
    \/ EndOfInput
    \/ GfsScanEntry
    \/ GfsEndOfInput
    \/ OpenFile
    \/ OpenRaisesIOError
    \/ WriteAll
    \/ WriteRaisesIOError

SpecIO == InitIO /\ [][NextIO]_vars

\* ------------------------------------------------ the timezone lookup
\* tf.timezone_at(lat, lng): no zone, a name pytz does not know, or a zone
TzNames == {"none", "unknown", "Europe/Zurich", "America/New_York"}

InitTz ==
    /\ forecasts \in ShortLists
    /\ gust_threshold_kt \in Thresholds
    /\ pc = "timezone"
    /\ i = 1
    /\ interval = OneHour
    /\ current_block = <<>>
    /\ ical_content = <<>>
    /\ events_added_count = 0
    /\ raised = "none"
    /\ outfile = <<[tag |-> "nofile"]>>
    /\ now_utc \in ScanClocks
    /\ location \in ScanLocations
    /\ PureIdle
    /\ DlIdle
    /\ script = "scripts"
    /\ json_file = "ok"
    /\ result = "pending"
    /\ previous = <<[tag |-> "nofile"]>>
    /\ run = 1
    /\ first_output = <<[tag |-> "nofile"]>>
    /\ tz_name \in TzNames
    /\ local_tz = [name |-> "unset", utcoffset |-> 0]
    /\ tz_lookups = 0

\* lines 89-102: one call of tf.timezone_at; None and a name that raises
\* UnknownTimeZoneError both give pytz.utc
ResolveTimezone ==
    /\ pc = "timezone"
    /\ tz_lookups' = tz_lookups + 1
    /\ local_tz' = (IF tz_name \in {"none", "unknown"} THEN Utc
                    ELSE Timezone(tz_name))
    /\ pc' = "start"
    /\ UNCHANGED <<forecasts, gust_threshold_kt, i, interval, current_block,
                   ical_content, events_added_count, raised, outfile, tz_name,
                   envVars, pureVars, ioVars, twiceVars, fnVars, dlVars>>

NextTz ==
    \/ ResolveTimezone
    \/ Start
    \/ SkipMissingDatetime
    \/ SkipUnparseableDatetime
    \/ CompareRaises
    \/ AppendToBlock
    \/ BelowThreshold
    \/ EndOfInput
    \/ WriteFile
    \/ WriteFails

SpecTz == InitTz /\ [][NextTz]_vars

\* ------------------------------------------------- degrees_to_cardinal
\* A direction is None or a number, counted in quarters of a degree: 45
\* quarters are 11.25 degrees, 90 are 22.5 degrees, 1440 are 360 degrees.
DegreeValues ==
    {[kind |-> "none", q |-> 0]}
        \cup {[kind |-> "num", q |-> x] : x \in (0 - MaxQuarters)..MaxQuarters}

directions ==
    <<"N", "NNE", "NE", "ENE", "E", "ESE", "SE", "SSE",
      "S", "SSW", "SW", "WSW", "W", "WNW", "NW", "NNW">>

\* variant: the shift by 11.25 degrees is missing
MutDegreesToCardinal(d) ==
    IF d.kind = "none" THEN "N/A"
    ELSE directions[(((d.q % 1440) \div 90) % 16) + 1]

\* lines 13-24; Python's % gives a result in [0, 360) for a negative
\* argument too, as % does here
degrees_to_cardinal(d) ==
    IF d.kind = "none" THEN "N/A"
    ELSE directions[((((d.q % 1440) + 45) \div 90) % 16) + 1]

\* nothing of a calendar run happens in the single-function specifications
ScanIdle ==
    /\ forecasts = <<>>
    /\ gust_threshold_kt = 0
    /\ pc = "idle"
    /\ i = 1
    /\ interval = OneHour
    /\ current_block = <<>>
    /\ ical_content = <<>>
    /\ events_added_count = 0
    /\ raised = "none"
    /\ outfile = <<[tag |-> "nofile"]>>
    /\ now_utc = 0
    /\ location = [latitude |-> 0, longitude |-> 0]
    /\ IoIdle

InitCardinal ==
    /\ ScanIdle
    /\ degrees \in DegreeValues
    /\ cardinal = "unset"
    /\ uid_blocks = <<>>
    /\ uids = <<>>
    /\ FnIdle
    /\ DlIdle

CallDegreesToCardinal ==
    /\ cardinal = "unset"
    /\ uid_blocks = <<>>
    /\ cardinal' = degrees_to_cardinal(degrees)
    /\ UNCHANGED <<scanVars, envVars, ioVars, twiceVars, tzVars, degrees,
                   uid_blocks, uids, fnVars, dlVars>>

\* Cosmo/cosmo_analyzer.py lines 86-92: the table of angles (in quarters of
\* a degree) and labels, N once more for 360
points ==
    <<[angle |-> 0, point |-> "N"], [angle |-> 90, point |-> "NNE"],
      [angle |-> 180, point |-> "NE"], [angle |-> 270, point |-> "ENE"],
      [angle |-> 360, point |-> "E"], [angle |-> 450, point |-> "ESE"],
      [angle |-> 540, point |-> "SE"], [angle |-> 630, point |-> "SSE"],
      [angle |-> 720, point |-> "S"], [angle |-> 810, point |-> "SSW"],
      [angle |-> 900, point |-> "SW"], [angle |-> 990, point |-> "WSW"],
      [angle |-> 1080, point |-> "W"], [angle |-> 1170, point |-> "WNW"],
      [angle |-> 1260, point |-> "NW"], [angle |-> 1350, point |-> "NNW"],
      [angle |-> 1440, point |-> "N"]>>

\* Cosmo/cosmo_analyzer.py lines 76-110: None and negative values give
\* Unknown; otherwise the first pair of neighbours of the table whose angles
\* enclose the value gives the label of the lower one
get_wind_direction_16_points(d) ==
    IF d.kind = "none" \/ d.q < 0 THEN "Unknown"
    ELSE LET q == d.q % 1440
             Hit(n) ==
                 \/ /\ points[n].point = "NNW"
                    /\ points[n + 1].point = "N"
                    /\ (q >= points[n].angle \/ q < points[n + 1].angle - 1440)
                 \/ points[n].angle <= q /\ q < points[n + 1].angle
             hits == {n \in 1..(Len(points) - 1) : Hit(n)}
         IN  IF hits # {}
             THEN points[CHOOSE n \in hits : \A m \in hits : n <= m].point
             ELSE IF q = 1440 THEN "N"
             ELSE "Unknown"

CallGetWindDirection16Points ==
    /\ wind_direction = "unset"
    /\ uid_blocks = <<>>
    /\ description_lines = <<>>
    /\ dl_pc = "idle"
    /\ wind_direction' = get_wind_direction_16_points(degrees)
    /\ UNCHANGED <<scanVars, envVars, ioVars, twiceVars, tzVars, pureVars,
                   description_lines, description, dlVars>>

NextCardinal ==
    \/ CallDegreesToCardinal
    \/ CallGetWindDirection16Points

SpecCardinal == InitCardinal /\ [][NextCardinal]_vars

\* ------------------------------------------------------- the escaping
MaxChars == 2
MaxLines == 2

\* the characters of a line: the three the escaping touches, and the letter
\* n for every other character (it is also the letter of the separator)
Chars == {"\\", ";", ",", "n"}
UnescapedLines == UNION {[1..n -> Chars] : n \in 0..MaxChars}

\* str.replace(old, new) for a one-character old
RECURSIVE Replace(_, _, _)
Replace(line, old, new) ==
    IF line = <<>> THEN <<>>
    ELSE (IF Head(line) = old THEN new ELSE <<Head(line)>>)
             \o Replace(Tail(line), old, new)

\* variant: the backslashes are doubled last
MutEscapeLine(line) ==
    Replace(Replace(Replace(line, ";", <<"\\", ";">>),
                    ",", <<"\\", ",">>),
            "\\", <<"\\", "\\">>)

\* line 41: .replace('\\', '\\\\').replace(';', '\;').replace(',', '\\,')
EscapeLine(line) ==
    Replace(Replace(Replace(line, "\\", <<"\\", "\\">>),
                    ";", <<"\\", ";">>),
            ",", <<"\\", ",">>)

\* line 278: "\\n".join(description_lines), character by character
RECURSIVE JoinEscaped(_)
JoinEscaped(lines) ==
    IF lines = <<>> THEN <<>>
    ELSE IF Len(lines) = 1 THEN Head(lines)
    ELSE Head(lines) \o <<"\\", "n">> \o JoinEscaped(Tail(lines))

InitEscape ==
    /\ ScanIdle
    /\ degrees = [kind |-> "none", q |-> 0]
    /\ cardinal = "unset"
    /\ uid_blocks = <<>>
    /\ uids = <<>>
    /\ wind_direction = "unset"
    /\ DlIdle
    /\ description_lines \in UNION {[1..n -> UnescapedLines] : n \in 1..MaxLines}
    /\ description = <<"unset">>

\* lines 263-278: every line goes through format_ical_description_line,
\* then the lines are joined
BuildDescription ==
    /\ description_lines # <<>>
    /\ description = <<"unset">>
    /\ description' =
         JoinEscaped([k \in 1..Len(description_lines) |->
                         EscapeLine(description_lines[k])])
    /\ UNCHANGED <<scanVars, envVars, ioVars, twiceVars, tzVars, pureVars,
                   wind_direction, description_lines, dlVars>>

NextEscape == BuildDescription

SpecEscape == InitEscape /\ [][NextEscape]_vars

\* ------------------------------------------- scripts/gfs_downloader.py
MaxRetries == 2

\* lines 113, 115
max_fxx == 384
max_consecutive_failures == 5

\* lines 130-133, 166-169, 178-181: hourly steps below hour 120, three-hourly
\* steps from there
HourlyUntil == 120
NextForecastHour(h) == IF h < HourlyUntil THEN h + 1 ELSE h + 3

\* nothing of a calendar or of a single function happens while a downloader
\* runs
NoCalendar == ScanIdle /\ PureIdle

calendarVars == <<scanVars, envVars, pureVars, ioVars, twiceVars, tzVars, fnVars>>

InitDownload ==
    /\ NoCalendar
    /\ dl_pc = "loop"
    /\ max_retries \in 0..MaxRetries
    /\ fxx_int = 0
    /\ consecutive_failures = 0
    /\ downloaded_files = 0
    /\ attempt = 0

\* line 119
LoopCondition ==
    fxx_int <= max_fxx /\ consecutive_failures < max_consecutive_failures

\* variant: a file that is already there does not reset the failures
MutFileExists ==
    /\ dl_pc = "loop"
    /\ LoopCondition
    /\ downloaded_files' = downloaded_files + 1
    /\ fxx_int' = NextForecastHour(fxx_int)
    /\ UNCHANGED <<dl_pc, max_retries, attempt, consecutive_failures, calendarVars>>

\* lines 125-134: the file of this hour is already in the directory
FileExists ==
    /\ dl_pc = "loop"
    /\ LoopCondition
    /\ downloaded_files' = downloaded_files + 1
    /\ consecutive_failures' = 0
    /\ fxx_int' = NextForecastHour(fxx_int)
    /\ UNCHANGED <<dl_pc, max_retries, attempt, calendarVars>>

\* lines 136-141: the file is not there, the retry loop starts
BeginStep ==
    /\ dl_pc = "loop"
    /\ LoopCondition
    /\ dl_pc' = "retry"
    /\ attempt' = 0
    /\ UNCHANGED <<max_retries, fxx_int, consecutive_failures,
                   downloaded_files, calendarVars>>

\* lines 141-153, 165-169: a request is answered with status 200 and more
\* than 100000 bytes; the file is written and the hour advances
RequestSucceeds ==
    /\ dl_pc = "retry"
    /\ attempt < max_retries
    /\ attempt' = attempt + 1
    /\ downloaded_files' = downloaded_files + 1
    /\ consecutive_failures' = 0
    /\ fxx_int' = NextForecastHour(fxx_int)
    /\ dl_pc' = "loop"
    /\ UNCHANGED <<max_retries, calendarVars>>

\* lines 141-146, 154-162: another status, a small body or a
\* RequestException; the next attempt follows
RequestFails ==
    /\ dl_pc = "retry"
    /\ attempt < max_retries
    /\ attempt' = attempt + 1
    /\ UNCHANGED <<dl_pc, max_retries, fxx_int, consecutive_failures,
                   downloaded_files, calendarVars>>

\* variant: a failed step is tried again at the same hour
MutStepFailed ==
    /\ dl_pc = "retry"
    /\ attempt = max_retries
    /\ consecutive_failures' = consecutive_failures + 1
    /\ dl_pc' = "loop"
    /\ UNCHANGED <<max_retries, fxx_int, attempt, downloaded_files, calendarVars>>

\* lines 171-181: all attempts of the step failed
StepFailed ==
    /\ dl_pc = "retry"
    /\ attempt = max_retries
    /\ consecutive_failures' = consecutive_failures + 1
    /\ fxx_int' = NextForecastHour(fxx_int)
    /\ dl_pc' = "loop"
    /\ UNCHANGED <<max_retries, attempt, downloaded_files, calendarVars>>

\* lines 119, 188-194: the loop condition is false, downloaded_files is
\* returned
ReturnFiles ==
    /\ dl_pc = "loop"
    /\ ~LoopCondition
    /\ dl_pc' = "returned"
    /\ UNCHANGED <<max_retries, fxx_int, consecutive_failures,
                   downloaded_files, attempt, calendarVars>>

NextDownload ==
    \/ FileExists
    \/ BeginStep
    \/ RequestSucceeds
    \/ RequestFails
    \/ StepFailed
    \/ ReturnFiles

SpecDownload == InitDownload /\ [][NextDownload]_vars

\* requests.get has a timeout and every statement of the loop body ends, so
\* the function always takes its next step
SpecDownloadFair == SpecDownload /\ WF_vars(NextDownload)

\* ----------------------------------------------- GFS/gfs_downloader.py
\* the loop of this downloader has no last step: steps from MaxStep on are
\* counted as MaxStep, and so is the length of the list
MaxStep == 4

\* line 71
gfs_max_consecutive_failures == 3

Counted(n) == IF n < MaxStep THEN n + 1 ELSE MaxStep

\* lines 68-71; fxx_int stands for the variable step of this file
InitGfsDownload ==
    /\ NoCalendar
    /\ dl_pc = "loop"
    /\ max_retries \in 0..MaxRetries
    /\ fxx_int = 0
    /\ consecutive_failures = 0
    /\ downloaded_files = 0
    /\ attempt = 0

\* lines 73, 79-84: the file of this step is already in the directory
GfsFileExists ==
    /\ dl_pc = "loop"
    /\ consecutive_failures < gfs_max_consecutive_failures
    /\ downloaded_files' = Counted(downloaded_files)
    /\ fxx_int' = Counted(fxx_int)
    /\ consecutive_failures' = 0
    /\ UNCHANGED <<dl_pc, max_retries, attempt, calendarVars>>

\* lines 73, 86-90
GfsBeginStep ==
    /\ dl_pc = "loop"
    /\ consecutive_failures < gfs_max_consecutive_failures
    /\ dl_pc' = "retry"
    /\ attempt' = 0
    /\ UNCHANGED <<max_retries, fxx_int, consecutive_failures,
                   downloaded_files, calendarVars>>

\* lines 90-101, 123: status 200 and more than 100000 bytes; break, next step
GfsRequestSucceeds ==
    /\ dl_pc = "retry"
    /\ attempt < max_retries
    /\ attempt' = attempt + 1
    /\ downloaded_files' = Counted(downloaded_files)
    /\ consecutive_failures' = 0
    /\ fxx_int' = Counted(fxx_int)
    /\ dl_pc' = "loop"
    /\ UNCHANGED <<max_retries, calendarVars>>

\* lines 90-95, 102-110
GfsRequestFails ==
    /\ dl_pc = "retry"
    /\ attempt < max_retries
    /\ attempt' = attempt + 1
    /\ UNCHANGED <<dl_pc, max_retries, fxx_int, consecutive_failures,
                   downloaded_files, calendarVars>>

\* lines 111-123, 128: the else of the for loop; with a file in the list the
\* loop is left and the list returned, otherwise the next step follows
GfsStepFailed ==
    /\ dl_pc = "retry"
    /\ attempt = max_retries
    /\ consecutive_failures' = consecutive_failures + 1
    /\ IF downloaded_files > 0
       THEN dl_pc' = "returned" /\ UNCHANGED fxx_int
       ELSE dl_pc' = "loop" /\ fxx_int' = Counted(fxx_int)
    /\ UNCHANGED <<max_retries, attempt, downloaded_files, calendarVars>>

\* lines 73, 128
GfsReturnFiles ==
    /\ dl_pc = "loop"
    /\ consecutive_failures >= gfs_max_consecutive_failures
    /\ dl_pc' = "returned"
    /\ UNCHANGED <<max_retries, fxx_int, consecutive_failures,
                   downloaded_files, attempt, calendarVars>>

NextGfsDownload ==
    \/ GfsFileExists
    \/ GfsBeginStep
    \/ GfsRequestSucceeds
    \/ GfsRequestFails
    \/ GfsStepFailed
    \/ GfsReturnFiles

SpecGfsDownload == InitGfsDownload /\ [][NextGfsDownload]_vars

\* requests.get has a timeout and every statement of the loop body ends
SpecGfsDownloadFair == SpecGfsDownload /\ WF_vars(NextGfsDownload)

\* ------------------------------------------------------------ the UID
\* coordinates in 1/10000 degree, none of them half way between two
\* thousandths
UidCoordinates == {-14, -4, 4, 6, 14}

UidBlocks == [start : Times, latitude : UidCoordinates, longitude : UidCoordinates]

InitUid ==
    /\ ScanIdle
    /\ degrees = [kind |-> "none", q |-> 0]
    /\ cardinal = "unset"
    /\ uid_blocks \in UidBlocks \X UidBlocks
    /\ uids = <<>>
    /\ FnIdle
    /\ DlIdle

\* lines 183, 230, 281, 328 for each of the two blocks
BuildUids ==
    /\ uid_blocks # <<>>
    /\ uids = <<>>
    /\ uids' = <<Uid(uid_blocks[1].start, uid_blocks[1].latitude,
                      uid_blocks[1].longitude),
                  Uid(uid_blocks[2].start, uid_blocks[2].latitude,
                      uid_blocks[2].longitude)>>
    /\ UNCHANGED <<scanVars, envVars, ioVars, twiceVars, tzVars, degrees,
                   cardinal, uid_blocks, fnVars, dlVars>>

NextUid == BuildUids

SpecUid == InitUid /\ [][NextUid]_vars

TypeOK ==
    /\ forecasts \in ForecastLists
    /\ gust_threshold_kt \in Thresholds
    /\ pc \in {"start", "scan", "write", "done", "failed", "crashed"}
    /\ i \in 1..(MaxLen + 1)
    /\ interval \in 1..MaxTime \cup {OneHour}
    /\ events_added_count = Len(ical_content)

\* ------------------------------------------------- vocabulary of the claims
\* entry k carries a datetime the scan can read
WellFormed(k) == forecasts[k].datetime.kind = "ok"

\* entry k's gust, an absent key counted as 0, is above the threshold
Exceeds(k) ==
    LET g == forecasts[k].wind_gust_kt
    IN  /\ g.kind # "null"
        /\ (IF g.kind = "absent" THEN 0 ELSE g.v) > gust_threshold_kt

\* entry k's gust, an absent key counted as 0, equals the threshold
AtThreshold(k) ==
    LET g == forecasts[k].wind_gust_kt
    IN  /\ g.kind # "null"
        /\ (IF g.kind = "absent" THEN 0 ELSE g.v) = gust_threshold_kt

Qualifies(k) == WellFormed(k) /\ Exceeds(k)

Events == 1..Len(ical_content)
Members(e) == [k \in 1..Len(e.description) |-> e.description[k].entry]
MemberSet(e) == {e.description[k].entry : k \in 1..Len(e.description)}
FirstMember(e) == e.description[1].entry
LastMember(e) == e.description[Len(e.description)].entry

\* the scan has looked at entry k
Scanned(k) == pc # "start" /\ k \in 1..(i - 1)
AtEntry == pc = "scan" /\ i <= num_forecasts
ScanOver == pc \in {"write", "done", "failed", "crashed"}
Completed == pc \in {"write", "done", "failed"}

\* the well-formed entries carry strictly increasing timestamps
Increasing ==
    \A a, b \in 1..num_forecasts :
        (a < b /\ WellFormed(a) /\ WellFormed(b))
            => forecasts[a].datetime.t < forecasts[b].datetime.t

\* C1: every entry rendered as a description line of an emitted event has a
\* gust (absent counted as 0, as the scan reads it) strictly above the
\* threshold.
MembersExceedThreshold ==
    \A j \in Events : \A k \in MemberSet(ical_content[j]) : Exceeds(k)

MembersExceedThresholdWitness ==
    /\ pc = "done"
    /\ \E j \in Events : Len(ical_content[j].description) >= 2

\* C2 as stated: the entry right before a block's first member and the entry
\* right after its last member never have a gust above the threshold, also
\* when they are malformed.
NeighboursDoNotExceed ==
    \A j \in Events :
        LET a == FirstMember(ical_content[j])
            b == LastMember(ical_content[j])
        IN  /\ a > 1 => ~Exceeds(a - 1)
            /\ b < num_forecasts => ~Exceeds(b + 1)

\* C2 amended: the entry right before a block's first member and the entry
\* right after its last member either has no readable datetime or does not
\* have a gust above the threshold.
NeighboursDoNotQualify ==
    \A j \in Events :
        LET a == FirstMember(ical_content[j])
            b == LastMember(ical_content[j])
        IN  /\ a > 1 => ~Qualifies(a - 1)
            /\ b < num_forecasts => ~Qualifies(b + 1)

NeighboursDoNotQualifyWitness ==
    /\ pc = "done"
    /\ \E j \in Events :
        LET a == FirstMember(ical_content[j])
            b == LastMember(ical_content[j])
        IN  /\ a > 1 /\ ~WellFormed(a - 1) /\ Exceeds(a - 1)
            /\ b < num_forecasts /\ WellFormed(b + 1) /\ ~Exceeds(b + 1)

\* C3: when the scan is over, the events are exactly the maximal runs of
\* qualifying entries: every event is a non-empty run of consecutive
\* qualifying entries that cannot be extended, every qualifying entry is a
\* member of exactly one event, and events are in input order.
IsMaximalRun(a, b) ==
    /\ a <= b
    /\ \A k \in a..b : Qualifies(k)
    /\ a = 1 \/ ~Qualifies(a - 1)
    /\ b = num_forecasts \/ ~Qualifies(b + 1)

EventsAreTheRuns ==
    /\ \A j \in Events :
        LET e == ical_content[j]
        IN  /\ Len(e.description) >= 1
            /\ \A k \in 1..Len(e.description) :
                   e.description[k].entry = FirstMember(e) + k - 1
            /\ IsMaximalRun(FirstMember(e), LastMember(e))
    /\ \A k \in 1..num_forecasts :
        Qualifies(k)
            => Cardinality({j \in Events : k \in MemberSet(ical_content[j])}) = 1
    /\ \A j1, j2 \in Events :
        j1 < j2 => FirstMember(ical_content[j1]) < FirstMember(ical_content[j2])

OneEventPerRun == ScanOver => EventsAreTheRuns

\* the same, for the runs that reach the write step
OneEventPerRunWhenCompleted == Completed => EventsAreTheRuns

\* C4: an entry whose gust equals the threshold is never added to the block,
\* and the step that scans it leaves no block open; a block that was open is
\* emitted by that step.
EqualToThresholdCloses ==
    [][(AtEntry /\ AtThreshold(i))
        => /\ current_block' = <<>>
           /\ current_block # <<>>
                => /\ Len(ical_content') = Len(ical_content) + 1
                   /\ Members(ical_content'[Len(ical_content')]) = current_block
           /\ current_block = <<>> => ical_content' = ical_content]_vars

EqualToThresholdClosesWitness ==
    /\ pc = "done"
    /\ \E j \in Events :
        /\ ical_content[j].site = "below"
        /\ AtThreshold(LastMember(ical_content[j]) + 1)

\* C5: an event whose block was closed by a well-formed entry that does not
\* exceed the threshold ends at that entry's own timestamp.
ClosedBlockEndsAtClosingEntry ==
    \A j \in Events :
        ical_content[j].site = "below"
            => ical_content[j].dtend
                   = forecasts[LastMember(ical_content[j]) + 1].datetime.t

ClosedBlockEndsAtClosingEntryWitness ==
    /\ pc = "done"
    /\ \E j \in Events :
        LET e == ical_content[j]
        IN  /\ e.site = "below"
            /\ e.dtend # forecasts[LastMember(e)].datetime.t
            /\ e.dtend # forecasts[LastMember(e)].datetime.t + interval

\* C6: an event whose block was still open at the end of the input ends at
\* its last member's timestamp plus the interval: the difference of the
\* first two timestamps, or one hour when there are fewer than two entries
\* or that difference is zero or negative.
FirstDelta == forecasts[2].datetime.t - forecasts[1].datetime.t

OpenBlockEndsAfterInterval ==
    \A j \in Events :
        LET e == ical_content[j]
            last == forecasts[LastMember(e)].datetime.t
        IN  e.site = "end"
                => /\ num_forecasts < 2 => e.dtend = last + OneHour
                   /\ (num_forecasts >= 2 /\ WellFormed(1) /\ WellFormed(2))
                        => e.dtend = last + (IF FirstDelta <= 0
                                             THEN OneHour ELSE FirstDelta)

OpenBlockEndsAfterIntervalWitness ==
    /\ pc = "done"
    /\ num_forecasts >= 2 /\ WellFormed(1) /\ WellFormed(2)
    /\ FirstDelta > 0 /\ FirstDelta # OneHour
    /\ \E j \in Events : ical_content[j].site = "end"

\* C7: an entry with a missing or unparseable datetime never ends the run
\* and is never a member of a block; the step that scans it emits an open
\* block with DTEND = last member's timestamp + interval, and the scan goes
\* on at the next entry with no block open.
MalformedEntryIsSkipped ==
    /\ [](\A j \in Events : \A k \in MemberSet(ical_content[j]) : WellFormed(k))
    /\ [][(AtEntry /\ ~WellFormed(i))
            => /\ pc' = "scan" /\ raised' = "none"
               /\ i' = i + 1
               /\ current_block' = <<>>
               /\ current_block = <<>> => ical_content' = ical_content
               /\ current_block # <<>>
                    => /\ Len(ical_content') = Len(ical_content) + 1
                       /\ SubSeq(ical_content', 1, Len(ical_content)) = ical_content
                       /\ LET e == ical_content'[Len(ical_content')]
                          IN  /\ Members(e) = current_block
                              /\ e.dtstart = forecasts[current_block[1]].datetime.t
                              /\ e.dtend =
                                   forecasts[current_block[Len(current_block)]].datetime.t
                                       + interval]_vars

MalformedEntryIsSkippedWitness ==
    /\ pc = "done"
    /\ \E j \in Events :
        /\ ical_content[j].site = "unparseable"
        /\ Exceeds(LastMember(ical_content[j]) + 1)
    /\ \E j \in Events : ical_content[j].site = "end"

InSomeBlock(k) ==
    \/ \E j \in Events : k \in MemberSet(ical_content[j])
    \/ \E m \in 1..Len(current_block) : current_block[m] = k

NoGustNeverRaises ==
    [][(AtEntry /\ forecasts[i].wind_gust_kt.kind \in {"absent", "null"})
        => (raised' = "none" /\ pc' = "scan")]_vars

\* C10: when the well-formed entries have strictly increasing timestamps,
\* every emitted event starts strictly before it ends.
StartBeforeEnd ==
    Increasing
        => \A j \in Events : ical_content[j].dtstart < ical_content[j].dtend

StartBeforeEndWitness ==
    /\ pc = "done"
    /\ Increasing
    /\ Len(ical_content) = 2
    /\ ical_content[1].site # ical_content[2].site

\* C13 as stated: the SUMMARY of every emitted event carries the threshold
\* and the UTC time of day of its DTSTART and of its DTEND, whichever place
\* of the code emitted it.
SummaryHasThresholdAndUtcRange ==
    \A j \in Events :
        LET e == ical_content[j]
        IN  /\ e.summary.threshold = gust_threshold_kt
            /\ e.summary.utc = <<e.dtstart % (24 * OneHour), e.dtend % (24 * OneHour)>>

\* C14: the DESCRIPTION of an event is one line per entry from the block's
\* first member up to the point that closed it (the next entry that does
\* not qualify, or the end of the list), in that order, with the two
\* characters backslash-n between consecutive lines and nowhere else.
ClosingPoint(e) ==
    CHOOSE c \in (FirstMember(e) + 1)..(num_forecasts + 1) :
        /\ c = num_forecasts + 1 \/ ~Qualifies(c)
        /\ \A k \in (FirstMember(e) + 1)..(c - 1) : Qualifies(k)

DescriptionHasOneLinePerMember ==
    \A j \in Events :
        LET e == ical_content[j]
            m == ClosingPoint(e) - FirstMember(e)
            text == e.description_text
        IN  /\ Len(text) = 2 * m - 1
            /\ \A k \in 1..m :
                 /\ text[2 * k - 1].entry = FirstMember(e) + k - 1
                 /\ text[2 * k - 1].time = forecasts[FirstMember(e) + k - 1].datetime.t
                 /\ text[2 * k - 1].gust = forecasts[FirstMember(e) + k - 1].wind_gust_kt
            /\ \A k \in 1..(m - 1) : text[2 * k] = [sep |-> "\\n"]

DescriptionHasOneLinePerMemberWitness ==
    /\ pc = "done"
    /\ \E j \in Events : Len(ical_content[j].description_text) = 3
    /\ \E j \in Events : ical_content[j].site = "below"

\* C15: the document handed to the write step is complete: the four header
\* lines, then groups of nine lines, each BEGIN:VEVENT, the seven properties
\* once each, END:VEVENT, and END:VCALENDAR as the last line; the same holds
\* of the file once written.
EventProperties ==
    {"UID", "DTSTAMP", "DTSTART", "DTEND", "SUMMARY", "LOCATION", "DESCRIPTION"}

IsCompleteDocument(doc) ==
    LET n == Len(doc)
    IN  /\ n >= 5
        /\ (n - 5) % 9 = 0
        /\ doc[1].tag = "BEGIN:VCALENDAR"
        /\ doc[2].tag = "VERSION:2.0"
        /\ doc[3].tag = "PRODID:-//project7III//WindCal//EN"
        /\ doc[4].tag = "CALSCALE:GREGORIAN"
        /\ doc[n].tag = "END:VCALENDAR"
        /\ \A g \in 0..(((n - 5) \div 9) - 1) :
             LET b == 4 + 9 * g
             IN  /\ doc[b + 1].tag = "BEGIN:VEVENT"
                 /\ {doc[b + k].tag : k \in 2..8} = EventProperties
                 /\ doc[b + 9].tag = "END:VEVENT"

WrittenDocumentIsComplete ==
    /\ pc = "write" => IsCompleteDocument(Document(ical_content))
    /\ pc = "done" => IsCompleteDocument(outfile)

WrittenDocumentIsCompleteWitness ==
    /\ pc = "done"
    /\ Len(outfile) = 5 + 9 * 2

\* C12 as stated: two blocks that differ in their start instant, their
\* latitude or their longitude get different UIDs.
DifferentBlocksDifferentUids ==
    uids # <<>>
        => (uid_blocks[1] # uid_blocks[2] => uids[1] # uids[2])

\* C12 amended: the UID is fixed by the start instant and the location; two
\* blocks get different UIDs when their start instants differ or when their
\* latitudes or their longitudes differ by 0.001 degree or more, and two
\* blocks with the same UID start at the same instant at locations less
\* than 0.001 degree apart in latitude and in longitude.
Gap(a, b) == IF a < b THEN b - a ELSE a - b

FarApartBlocksDifferentUids ==
    uids # <<>>
        => LET a == uid_blocks[1]
               b == uid_blocks[2]
           IN  /\ a = b => uids[1] = uids[2]
               /\ (\/ a.start # b.start
                   \/ Gap(a.latitude, b.latitude) >= 10
                   \/ Gap(a.longitude, b.longitude) >= 10) => uids[1] # uids[2]

FarApartBlocksDifferentUidsWitness ==
    /\ uids # <<>>
    /\ uid_blocks[1].latitude # uid_blocks[2].latitude
    /\ uid_blocks[1].longitude # uid_blocks[2].longitude
    /\ uids[1] = uids[2]

\* C20: every label covers the 22.5 degrees centred on its angle, the lower
\* edge included: the label of index k is returned exactly for the
\* directions d with 22.5k - 11.25 <= d mod 360 < 22.5k + 11.25 (around the
\* circle); 349 gives N, 22 gives NNE, 11.25 gives NNE, and None gives N/A.
Labels16 ==
    <<"N", "NNE", "NE", "ENE", "E", "ESE", "SE", "SSE",
      "S", "SSW", "SW", "WSW", "W", "WNW", "NW", "NNW">>

InSector(q, k) == ((q - 90 * k + 45) % 1440) < 90

CardinalIsSectorLabel ==
    cardinal # "unset"
        => /\ degrees.kind = "none" => cardinal = "N/A"
           /\ degrees.kind = "num"
                => /\ \A k \in 0..15 :
                        InSector(degrees.q, k) <=> cardinal = Labels16[k + 1]
                   /\ degrees.q = 349 * 4 => cardinal = "N"
                   /\ degrees.q = 22 * 4 => cardinal = "NNE"
                   /\ degrees.q = 45 => cardinal = "NNE"

CardinalIsSectorLabelWitness ==
    /\ degrees.kind = "num"
    /\ degrees.q = 45
    /\ cardinal = "NNE"

\* C11 as stated: the second run on the same input writes the same file as
\* the first, whatever the clock.
SecondRunWritesSameFile ==
    (run = 2 /\ pc = "done") => outfile = first_output

\* C11 amended: the second run writes the same number of lines, each with
\* the same property name, and every line other than the DTSTAMP lines is
\* equal to the first run's; the DTSTAMP lines carry the clock reading of
\* the run that wrote them, so the files are equal when the two readings
\* are.
SecondRunDiffersOnlyInDtstamp ==
    (run = 2 /\ pc = "done")
        => /\ Len(outfile) = Len(first_output)
           /\ \A k \in 1..Len(outfile) :
                /\ outfile[k].tag = first_output[k].tag
                /\ outfile[k].tag # "DTSTAMP" => outfile[k] = first_output[k]
                /\ outfile[k].tag = "DTSTAMP" => outfile[k].val = now_utc
           /\ (\A k \in 1..Len(outfile) :
                 first_output[k].tag = "DTSTAMP" => first_output[k].val = now_utc)
                => outfile = first_output

SecondRunDiffersOnlyInDtstampWitness ==
    /\ run = 2
    /\ pc = "done"
    /\ Len(outfile) = 5 + 9 * 1
    /\ outfile # first_output

\* C16 (as claimed): in every reachable state of a run of either script the
\* destination file holds its previous content or the complete new document,
\* never a truncated or partial one.
DestinationIsPreviousOrComplete ==
    \/ outfile = previous
    \/ pc = "done" /\ outfile = FinalDocument

\* C17: when the input file does not exist, is not JSON, or lacks location,
\* latitude or longitude, the run of either script returns None before the
\* scan and the output file is never created or modified.
BadInputReturnsNoneAndWritesNothing ==
    json_file # "ok" =>
        /\ outfile = previous
        /\ pc \in {"read", "locate", "returned"}
        /\ (pc = "returned" => result = "None")
        /\ (pc # "returned" => result = "pending")

BadInputReturnsNoneAndWritesNothingWitness ==
    /\ json_file = "nolongitude"
    /\ script = "GFS"
    /\ pc = "returned"
    /\ result = "None"
    /\ outfile = OldFile

\* an entry whose gust, as the code reads it, is a number above the threshold
NumberOverThreshold(k) ==
    /\ GetGust(forecasts[k]).kind = "num"
    /\ GetGust(forecasts[k]).v > gust_threshold_kt

\* the calendar of a run without events
HeaderOnly == Header \o <<[tag |-> "END:VCALENDAR"]>>

\* what C18 promises of a run once the input was read
WritesHeaderOnly ==
    /\ pc \notin {"returned", "crashed"}
    /\ (pc \in {"write", "opened", "done", "failed"} =>
            ical_content = <<>> /\ FinalDocument = HeaderOnly)
    /\ (pc = "done" => outfile = HeaderOnly /\ result = "filename")

\* C18: for a parseable input with a valid location in which no sample
\* qualifies (no entries at all, or every gust, an absent one read as 0, a
\* number at or below the threshold), the run of either script does not stop
\* before the write step, the document it writes is the header and
\* END:VCALENDAR with no VEVENT, and it returns the filename when written.
NoQualifyingSampleWritesHeaderOnly ==
    (/\ json_file = "ok"
     /\ pc \notin {"read", "locate"}
     /\ \A k \in 1..num_forecasts :
            /\ GetGust(forecasts[k]).kind = "num"
            /\ ~NumberOverThreshold(k))
    => WritesHeaderOnly

NoQualifyingSampleWritesHeaderOnlyWitness ==
    /\ script = "GFS"
    /\ num_forecasts = MaxShort
    /\ \A k \in 1..num_forecasts :
            /\ GetGust(forecasts[k]).kind = "num"
            /\ GetGust(forecasts[k]).v = gust_threshold_kt
    /\ pc = "done"
    /\ outfile = HeaderOnly
    /\ result = "filename"

\* C19: a run of either script whose write step fails returns None, and a
\* run returns the filename only when the whole document is in the file.
FilenameOnlyAfterCompleteWrite ==
    /\ (pc = "failed" => result = "None")
    /\ (result = "filename" => pc = "done" /\ outfile = FinalDocument)
    /\ (pc = "done" => result = "filename")

FilenameOnlyAfterCompleteWriteWitness ==
    /\ pc = "failed"
    /\ result = "None"
    /\ outfile # previous
    /\ outfile # <<>>

\* the entries among the first n, in input order, that satisfy P
RECURSIVE EntriesWhere(_, _)
EntriesWhere(P(_), n) ==
    IF n = 0 THEN <<>>
    ELSE IF P(n) THEN Append(EntriesWhere(P, n - 1), n)
    ELSE EntriesWhere(P, n - 1)

\* the entries the GFS loop has been through
GfsScanned == IF pc = "gfs_scan" THEN i - 1 ELSE num_forecasts

InGfsRun ==
    /\ script = "GFS"
    /\ pc \in {"gfs_scan", "write", "opened", "done", "failed"}

\* the end the claim gives to the event of entry k
GfsEndOf(k) ==
    LET start == forecasts[k].datetime.t
    IN  IF k = num_forecasts THEN start + ThreeHours
        ELSE IF WellFormed(k + 1) THEN forecasts[k + 1].datetime.t
        ELSE start + OneHour

\* the events are, in input order, one per entry of the sequence q
GfsEventsAre(q) ==
    /\ Len(ical_content) = Len(q)
    /\ \A j \in 1..Len(q) :
         /\ ical_content[j].dtstart = Strptime(forecasts[q[j]].datetime).val
         /\ WellFormed(q[j]) => ical_content[j].dtend = GfsEndOf(q[j])

\* C21 (as claimed): in GFS/create_calendar.py there is exactly one event for
\* each scanned entry whose gust exceeds the threshold, whatever its datetime.
OneEventPerEntryOverThreshold ==
    InGfsRun => GfsEventsAre(EntriesWhere(NumberOverThreshold, GfsScanned))

GfsQualifies(k) == NumberOverThreshold(k) /\ WellFormed(k)

\* C21 (amended): in GFS/create_calendar.py there is exactly one event for
\* each scanned entry whose gust exceeds the threshold and whose datetime
\* parses, in input order; it starts at the entry's datetime and ends at the
\* next entry's datetime, at start + 3 hours when the entry is the last one,
\* and at start + 1 hour when the next entry's datetime is missing or
\* unparseable. An entry over the threshold without a parseable datetime
\* gets no event.
OneEventPerParseableEntryOverThreshold ==
    InGfsRun => GfsEventsAre(EntriesWhere(GfsQualifies, GfsScanned))

OneEventPerParseableEntryOverThresholdWitness ==
    /\ script = "GFS"
    /\ pc = "done"
    /\ Len(ical_content) = 1
    /\ num_forecasts = 2
    /\ NumberOverThreshold(1) /\ ~WellFormed(1)
    /\ GfsQualifies(2)
    /\ ical_content[1].dtend = forecasts[2].datetime.t + ThreeHours

\* C22 (as claimed): in scripts/create_calendar.py, when the well-formed
\* entries carry strictly increasing timestamps, the DTEND of each event is
\* not later than the DTSTART of the next event.
EventsDoNotOverlap ==
    Increasing =>
        \A j \in 1..(Len(ical_content) - 1) :
            ical_content[j].dtend <= ical_content[j + 1].dtstart

\* C23: in both scripts the destination is not touched before the write
\* step: while the input is read and scanned, and after a run that returned
\* on an input error or was left by an exception of the scan, the output
\* file is what it was before the run; when the write step is reached the
\* document in memory ends with END:VCALENDAR.
FileUntouchedBeforeWriteStep ==
    /\ pc \notin {"opened", "done", "failed"} => outfile = previous
    /\ pc = "write" =>
           FinalDocument[Len(FinalDocument)] = [tag |-> "END:VCALENDAR"]

FileUntouchedBeforeWriteStepWitness ==
    /\ pc = "crashed"
    /\ raised = "TypeError"
    /\ current_block # <<>>
    /\ previous = OldFile
    /\ outfile = OldFile

\* the VEVENT blocks of a document
VEventBlocks(doc) == {k \in 1..Len(doc) : doc[k].tag = "BEGIN:VEVENT"}

\* C24 (as claimed): in both scripts the count reported at the end of the
\* scan equals the number of VEVENT blocks of the document handed to the
\* write step, and of the file once written.
ReportedCountIsNumberOfEvents ==
    /\ pc \in {"write", "opened", "done"} =>
           events_added_count = Cardinality(VEventBlocks(FinalDocument))
    /\ pc = "done" => events_added_count = Cardinality(VEventBlocks(outfile))

\* the same, of scripts/create_calendar.py alone
ReportedCountIsNumberOfBlocks == script = "scripts" => ReportedCountIsNumberOfEvents

\* C25: in scripts/create_calendar.py the timezone is looked up exactly once,
\* before the scan starts, and never again; every description line of every
\* event shows its entry's time of day in that one timezone; when the
\* lookup gives no zone or an unknown name the timezone is UTC and the run
\* goes on to the scan.
TimezoneResolvedOnce ==
    /\ tz_lookups = (IF pc = "timezone" THEN 0 ELSE 1)
    /\ pc # "timezone" =>
        /\ local_tz = (IF tz_name \in {"none", "unknown"} THEN Utc
                       ELSE Timezone(tz_name))
        /\ \A j \in 1..Len(ical_content) :
             \A k \in 1..Len(ical_content[j].description) :
                LET line == ical_content[j].description[k]
                IN  line.local
                      = (forecasts[line.entry].datetime.t + local_tz.utcoffset)
                            % (24 * OneHour)
        /\ pc = "done" => \A j \in 1..Len(ical_content) :
             \E n \in 1..Len(outfile) :
                /\ outfile[n].tag = "DESCRIPTION"
                /\ outfile[n].val = ical_content[j].description_text

TimezoneResolvedOnceWitness ==
    /\ pc = "done"
    /\ tz_name = "America/New_York"
    /\ \E j \in 1..Len(ical_content) :
         /\ Len(ical_content[j].description) = 2
         /\ ical_content[j].description[1].local
                = 24 * OneHour - 5 * OneHour
         /\ ical_content[j].description[2].local # ical_content[j].description[2].time

\* C27 (as claimed): for every direction in [0, 360) degrees
\* get_wind_direction_16_points returns the label degrees_to_cardinal
\* returns, and for no non-negative direction it returns Unknown.
CosmoLabelIsSectorLabel ==
    (wind_direction # "unset" /\ degrees.kind = "num" /\ degrees.q >= 0) =>
        /\ wind_direction # "Unknown"
        /\ degrees.q < 1440 => wind_direction = degrees_to_cardinal(degrees)

\* what the code does instead: the label of the 22.5-degree sector that
\* starts at the label's angle
CosmoLabelIsLowerNeighbour ==
    (wind_direction # "unset" /\ degrees.kind = "num" /\ degrees.q >= 0) =>
        wind_direction = directions[((degrees.q % 1440) \div 90) + 1]

\* an iCalendar reader's view of a text: a backslash and the character after
\* it are one escape, every other character stands for itself
RECURSIVE Tokens(_)
Tokens(text) ==
    IF text = <<>> THEN <<>>
    ELSE IF Head(text) = "\\" /\ Len(text) >= 2
         THEN <<[esc |-> TRUE, ch |-> text[2]]>> \o Tokens(Tail(Tail(text)))
    ELSE <<[esc |-> FALSE, ch |-> Head(text)]>> \o Tokens(Tail(text))

\* what the claim expects of one line: each backslash, semicolon and comma
\* as one escape, each other character as itself
ExpectedOfLine(line) ==
    [k \in 1..Len(line) |-> [esc |-> line[k] \in {"\\", ";", ","}, ch |-> line[k]]]

RECURSIVE ExpectedOfLines(_)
ExpectedOfLines(lines) ==
    IF Len(lines) = 1 THEN ExpectedOfLine(Head(lines))
    ELSE ExpectedOfLine(Head(lines)) \o <<[esc |-> TRUE, ch |-> "n"]>>
             \o ExpectedOfLines(Tail(lines))

\* C26: in the joined description every backslash, semicolon and comma of
\* an unescaped line is preceded by exactly one escaping backslash, every
\* other character is unchanged, and between two lines stands the pair
\* backslash-n with no further backslash before it.
EveryLineEscapedOnce ==
    description # <<"unset">> =>
        Tokens(description) = ExpectedOfLines(description_lines)

EveryLineEscapedOnceWitness ==
    /\ description # <<"unset">>
    /\ description_lines = <<<<"\\", ",">>, <<"n", ";">>>>
    /\ description = <<"\\", "\\", "\\", ",", "\\", "n", "n", "\\", ";">>

\* a step of the outer loop ends: the function is back at the loop head
IterationEnds == dl_pc \in {"loop", "retry"} /\ dl_pc' = "loop"

\* a request is issued
RequestIssued == attempt' = attempt + 1

\* C28: download_gfs_wind_data of scripts/gfs_downloader.py returns whatever
\* the server answers: every iteration of the outer loop raises the forecast
\* hour, by 1 below hour 120 and by 3 from hour 120 on, also when the step
\* failed or the file was already there; a step issues at most max_retries
\* requests; no hour above 384 is requested.
DownloadTerminates ==
    /\ [][IterationEnds =>
             /\ fxx_int' > fxx_int
             /\ fxx_int' = fxx_int + (IF fxx_int < 120 THEN 1 ELSE 3)]_vars
    /\ [](attempt <= max_retries)
    /\ [][RequestIssued => attempt < max_retries /\ fxx_int <= 384]_vars
    /\ [](dl_pc = "retry" => fxx_int <= 384)
    /\ <>(dl_pc = "returned")

DownloadTerminatesWitness ==
    /\ dl_pc = "returned"
    /\ fxx_int = 387
    /\ consecutive_failures = 4
    /\ downloaded_files > 0
    /\ attempt = MaxRetries

\* C29: consecutive_failures counts the latest steps that failed all their
\* retries: it starts at 0, a step that fails all its retries raises it by
\* one, a download or a file already present sets it to 0, and nothing else
\* changes it; it never exceeds 5, and once it is 5 no request is issued and
\* the function returns the files it has.
FailuresCountLatestFailedSteps ==
    /\ [](consecutive_failures \in 0..5)
    /\ [](dl_pc = "loop" /\ fxx_int = 0 => consecutive_failures = 0)
    /\ [][(IterationEnds /\ downloaded_files' = downloaded_files)
             => consecutive_failures' = consecutive_failures + 1]_vars
    /\ [][downloaded_files' # downloaded_files
             => /\ downloaded_files' = downloaded_files + 1
                /\ IterationEnds
                /\ consecutive_failures' = 0]_vars
    /\ [][~IterationEnds => consecutive_failures' = consecutive_failures]_vars
    /\ [](consecutive_failures = 5 => dl_pc \in {"loop", "returned"})
    /\ [][consecutive_failures = 5
             => /\ ~RequestIssued
                /\ dl_pc' = "returned"
                /\ downloaded_files' = downloaded_files]_vars

FailuresCountLatestFailedStepsWitness ==
    /\ dl_pc = "returned"
    /\ consecutive_failures = 5
    /\ downloaded_files = 2
    /\ fxx_int = 7

\* C30 (as claimed): download_gfs_wind_data of GFS/gfs_downloader.py returns
\* whatever the server answers.
GfsDownloadTerminates == <>(dl_pc = "returned")

\* the rest of C30: the function has returned exactly when a step failed all
\* its retries with a file in the list, or 3 steps in a row failed with no
\* file; no request follows the return.
GfsDownloadStopsOnFailure ==
    /\ [](dl_pc = "returned" =>
            \/ consecutive_failures >= 1 /\ downloaded_files > 0
            \/ consecutive_failures = 3 /\ downloaded_files = 0)
    /\ [][dl_pc = "returned" => attempt' = attempt]_vars
    /\ [][(dl_pc = "retry" /\ attempt = max_retries /\ downloaded_files > 0)
            => dl_pc' = "returned"]_vars
    /\ [](dl_pc = "loop" /\ downloaded_files = 0 => fxx_int = consecutive_failures)

====
